---- MODULE Spec2Model ----
(***************************************************************************)
(* A model of VissiCaRe (src/interface.py): the license tab and its local  *)
(* token cache, the license gates of the results tabs and of the           *)
(* calibrator, the export/import of tab state and the project file menu.   *)
(*                                                                         *)
(* The GUI is single threaded: every handler runs to completion before     *)
(* the next event is taken, so every handler is one action.  What the      *)
(* license server answers and what the user typed in plain entry fields    *)
(* are inputs of the handler that reads them.                              *)
(***************************************************************************)
EXTENDS Integers, Sequences, FiniteSets, TLC

VARIABLES
    lic,            \* LicenseTab: _app_enabled, _valid, _reason, _raw_features, _features_effective
    tokenFile,      \* the local cache file license_token.json
    requestsOk,     \* whether the requests package could be imported
    curTab,         \* QTabWidget.currentIndex of the main window, by tab name
    mistar,         \* NodesTab.mistar_check: enabled, checked
    multi,          \* CalibratorTab.multiple_scenarios_combo: enabled, text
    project,        \* main window: _layout_path, _dirty, and the layout files on disk
    tabState,       \* the widget values of the results tab whose export/import is followed
    last            \* what the last handler did (dialogs, requests, stub call)

vars == <<lic, tokenFile, requestsOk, curTab, mistar, multi, project, tabState, last>>

(***************************************************************************)
(* Tier labels and gate features                                          *)
(***************************************************************************)
TIER_1 == "Tier1"
TIER_1_M == "Tier1_M"
TIER_2 == "Tier2"
TIER_2_M == "Tier2_M"
TIER_3 == "Tier3"
FEATURE_RESULTS_BASIC == "results_basic"
FEATURE_MISTAR == "mistar_solution"
FEATURE_CALIBRATOR_BASIC == "calibrator_basic"
FEATURE_MULTI_SCENARIO == "multi_scenario_calibration"
FEATURE_ALL_ACCESS == "all_access"

\* A tier label as a server may send it with blanks around it, and a blank entry.
PaddedTier3 == " Tier3 "
BlankEntry == "  "

\* str(x).strip() on the names the model uses.
Strip(x) ==
    IF x = PaddedTier3 THEN TIER_3
    ELSE IF x = BlankEntry THEN ""
    ELSE x

TierNames == {TIER_1, TIER_1_M, TIER_2, TIER_2_M, TIER_3}
GateFeatures == {FEATURE_RESULTS_BASIC, FEATURE_MISTAR, FEATURE_CALIBRATOR_BASIC,
                 FEATURE_MULTI_SCENARIO, FEATURE_ALL_ACCESS}

\* LicenseTab._compute_effective_features: a feature list is modelled by the set
\* of its entries (the code turns it into a set at once).
ComputeEffectiveFeatures(raw_features) ==
    LET raw_set == {Strip(x) : x \in raw_features} \ {""}
        eff == raw_set \cup (IF FEATURE_ALL_ACCESS \in raw_set THEN {TIER_3} ELSE {})
    IN  IF TIER_3 \in raw_set
        THEN eff \cup TierNames \cup GateFeatures
        ELSE eff
             \cup (IF TIER_1 \in raw_set \/ TIER_1_M \in raw_set
                   THEN {FEATURE_RESULTS_BASIC} ELSE {})
             \cup (IF TIER_1_M \in raw_set THEN {FEATURE_MISTAR} ELSE {})
             \cup (IF TIER_2 \in raw_set \/ TIER_2_M \in raw_set
                   THEN {FEATURE_CALIBRATOR_BASIC} ELSE {})
             \cup (IF TIER_2_M \in raw_set THEN {FEATURE_MULTI_SCENARIO} ELSE {})

\* has_feature as plain membership, without the Tier3 / all_access shortcut.
HasFeatureMembershipOnly(eff, feature_name) == feature_name \in eff

\* LicenseTab.has_feature on an effective feature set.

HasFeature(eff, feature_name) ==
    \/ TIER_3 \in eff
    \/ FEATURE_ALL_ACCESS \in eff
    \/ feature_name \in eff

(***************************************************************************)
(* JSON values exchanged with the license server                           *)
(***************************************************************************)
\* The value of a "features" key: absent, a list, or something that is no list.
AbsentFeatures == [kind |-> "absent", items |-> {}]
NonListFeatures == [kind |-> "other", items |-> {}]
FeatureList(items) == [kind |-> "list", items |-> items]

\* A decoded response body.  isDict is FALSE for JSON that is no object.
Body(app_enabled, valid, reason, ent, top, token) ==
    [isDict |-> TRUE, app_enabled |-> app_enabled, valid |-> valid, reason |-> reason,
     ent |-> ent, top |-> top, token |-> token]

NonDictBody ==
    [isDict |-> FALSE, app_enabled |-> TRUE, valid |-> FALSE, reason |-> "",
     ent |-> AbsentFeatures, top |-> AbsentFeatures, token |-> ""]

\* The dicts the client builds itself: {"app_enabled": True, "valid": False, "reason": r}.
LocalDict(reason) == Body(TRUE, FALSE, reason, AbsentFeatures, AbsentFeatures, "")

\* What one HTTP POST does: the request raises (no connection, timeout), the body is
\* not JSON, or a body is decoded.
RaiseOutcome == [kind |-> "raise", body |-> NonDictBody]
UndecodableOutcome == [kind |-> "undecodable", body |-> NonDictBody]
ReplyOutcome(body) == [kind |-> "reply", body |-> body]

(***************************************************************************)
(* LicenseTab: state, local storage, server calls                          *)
(***************************************************************************)
LicState(app_enabled, valid, reason, raw, eff) ==
    [app_enabled |-> app_enabled, valid |-> valid, reason |-> reason, raw |-> raw, eff |-> eff]

\* LicenseTab.__init__ sets these before the cache file is read.
InitialLic == LicState(TRUE, FALSE, "UNACTIVATED", {}, {})

NoFile == [exists |-> FALSE, token |-> "", hasCache |-> FALSE, cache |-> InitialLic]

\* LicenseTab._read_token
ReadToken(f) == IF f.exists THEN Strip(f.token) ELSE ""

\* A save that leaves the cache file as it was.
SaveTokenDropped(f, token, cache) == f

\* LicenseTab._save_token(token, cache)
SaveToken(f, token, cache) ==
    [exists |-> TRUE, token |-> token, hasCache |-> TRUE, cache |-> cache]

\* A clearing that leaves the cache file in place.
ClearTokenKept(f) == f

\* LicenseTab._clear_token
ClearToken(f) == NoFile

\* LicenseTab._current_state_dict: the snapshot handed to the gates.
CurrentStateDict(l) ==
    [app_enabled |-> l.app_enabled, valid |-> l.valid, reason |-> l.reason, features |-> l.eff]

\* NodesTab.refresh_license_ui on the check box m = [enabled, checked].
RefreshLicenseUi(l, m) ==
    LET has_tier1 == HasFeature(l.eff, FEATURE_RESULTS_BASIC)
        has_mistar == HasFeature(l.eff, FEATURE_MISTAR)
        allowed == has_tier1 /\ has_mistar
    IN  [enabled |-> allowed, checked |-> m.checked /\ allowed]

\* The part of the application a license call reads and writes: w.lic, w.file, the
\* Mistar check box (refreshed through on_license_changed), the requests sent by the
\* running handler and whether an exception is propagating.
World(l, f, m) == [lic |-> l, file |-> f, mistar |-> m, reqs |-> <<>>, raised |-> FALSE]

\* _post_json with one reason for every failure of the HTTP call.
PostJsonAllNoInternet(o) ==
    IF ~requestsOk THEN LocalDict("SERVER_NOT_CONFIGURED")
    ELSE IF o.kind \in {"raise", "undecodable"} THEN LocalDict("NO_INTERNET")
    ELSE o.body

\* LicenseTab._post_json: the returned dict.
PostJson(o) ==
    IF ~requestsOk THEN LocalDict("SERVER_NOT_CONFIGURED")
    ELSE IF o.kind = "raise" THEN LocalDict("NO_INTERNET")
    ELSE IF o.kind = "undecodable" THEN LocalDict("BAD_SERVER_RESPONSE")
    ELSE o.body

\* LicenseTab._post_json: the requests it sends (one, unless the server is not ready),
\* each with the license key or activation token of its payload, with what became of
\* it: "raise", "undecodable", "reply" (a JSON object) or "reply_not_object", and with
\* the activation_token of the answer.
Sent(reqs, endpoint, payload, o) ==
    IF requestsOk
    THEN Append(reqs, [endpoint |-> endpoint,
                       payload |-> payload,
                       outcome |-> IF o.kind = "reply" /\ ~o.body.isDict
                                   THEN "reply_not_object" ELSE o.kind,
                       answered |-> IF o.kind = "reply" /\ o.body.isDict
                                    THEN Strip(o.body.token) ELSE ""])
    ELSE reqs

\* The feature list _apply_server_state reads: entitlements.features when the key
\* is there, else features; anything that is no list counts as empty.
RawFeatures(data) ==
    LET picked == IF data.ent.kind # "absent" THEN data.ent ELSE data.top
    IN  IF picked.kind = "list" THEN picked.items ELSE {}

\* The license state _apply_server_state takes from a response with the list raw.
LicOfRaw(data, raw) ==
    LicState(data.app_enabled, data.valid, data.reason, raw, ComputeEffectiveFeatures(raw))

\* The second half of _apply_server_state: the cache file is written only when the
\* response carries an activation_token; then _on_license_changed runs.
Applied(w, token, l) ==
    [w EXCEPT !.lic = l,
              !.file = IF token # "" THEN SaveToken(w.file, token, l) ELSE w.file,
              !.mistar = RefreshLicenseUi(l, w.mistar)]

\* LicenseTab._apply_server_state(data, save_cache): save_cache is never read; data
\* that is no dict raises at the first data.get.
ApplyServerState(w, data) ==
    IF ~data.isDict THEN [w EXCEPT !.raised = TRUE]
    ELSE Applied(w, Strip(data.token), LicOfRaw(data, RawFeatures(data)))

\* LicenseTab._server_validate followed by _apply_server_state:
\* LicenseTab.validate_and_cache(force=True).
ValidateAndCache(w, o) ==
    ApplyServerState(
        IF ReadToken(w.file) = "" THEN w
        ELSE [w EXCEPT !.reqs = Sent(w.reqs, "/validate", ReadToken(w.file), o)],
        IF ReadToken(w.file) = "" THEN LocalDict("UNACTIVATED") ELSE PostJson(o))

\* An opening that never reads cached_validation.
LoadIgnoringCache(f) ==
    IF ReadToken(f) # "" THEN [InitialLic EXCEPT !.reason = "NEEDS_VALIDATION"] ELSE InitialLic

\* LicenseTab._load_and_soft_validate_on_open: the state a new LicenseTab takes from
\* the cache file; no request is sent.
LoadAndSoftValidateOnOpen(f) ==
    IF f.exists /\ f.hasCache
    THEN LicState(f.cache.app_enabled, f.cache.valid, f.cache.reason, f.cache.raw,
                  IF f.cache.eff # {} THEN f.cache.eff
                  ELSE ComputeEffectiveFeatures(f.cache.raw))
    ELSE IF ReadToken(f) # ""
         THEN [InitialLic EXCEPT !.reason = "NEEDS_VALIDATION"]
         ELSE InitialLic

(***************************************************************************)
(* The main window's tabs                                                  *)
(***************************************************************************)
ResultsTabs == {"nodes", "links", "travel_time", "throughput", "network"}
AppTabs == ResultsTabs \cup {"calibrator", "help", "license"}

\* The stub each results tab calls.
StubOf(t) ==
    CASE t = "nodes" -> "Simulation_Nodes"
      [] t = "links" -> "Link_Results"
      [] t = "travel_time" -> "Simulation_TT"
      [] t = "throughput" -> "Simulation_Throughput"
      [] t = "network" -> "Network_Results"

(***************************************************************************)
(* The license gate of the results tabs                                    *)
(***************************************************************************)
\* What _license_snapshot returns when validate_and_cache ended in the world w1.
SnapshotOf(w1) ==
    [w |-> [w1 EXCEPT !.raised = FALSE],
     snap |-> IF w1.raised
              THEN [app_enabled |-> TRUE, valid |-> FALSE, reason |-> "NO_INTERNET",
                    features |-> {}]
              ELSE CurrentStateDict(w1.lic)]

\* <Tab>._license_snapshot(force=True): the license tab is found through the parent
\* chain; an exception of validate_and_cache becomes a NO_INTERNET snapshot.
LicenseSnapshot(w, o) == SnapshotOf(ValidateAndCache(w, o))

\* A gate that does not look at "valid".
SnapshotGrantsIgnoringValid(snap, feature_name) ==
    snap.app_enabled /\ feature_name \in snap.features

\* <Tab>._ensure_feature_or_redirect: whether the snapshot lets the action go on.
SnapshotGrants(snap, feature_name) ==
    /\ snap.app_enabled
    /\ snap.valid
    /\ feature_name \in snap.features

\* NetworkTab._on_collect gates on results_basic like the other results tabs.
GateFeature(t) == FEATURE_RESULTS_BASIC

(***************************************************************************)
(* The form of a results tab as _on_collect reads it                       *)
(***************************************************************************)
\* The text of a QLineEdit under a QIntValidator is a sequence of digits.
RECURSIVE DecimalValue(_)
DecimalValue(text) ==
    IF text = <<>> THEN 0
    ELSE 10 * DecimalValue(SubSeq(text, 1, Len(text) - 1)) + text[Len(text)]

\* int(edit.text().strip() or "0")
PeriodInt(text) == IF text = <<>> THEN 0 ELSE DecimalValue(text)

ExistingDir == "C:/project"
MissingDir == "C:/nowhere"

\* os.path.isdir
IsDir(p) == p = ExistingDir

\* The checks of _on_collect between the gate and the stub call, on the form
\* f = [anyRun, seed, eval, path, resdir, numbers, mainline, metrics]:
\* numbers are the as_int() values of a row's number boxes.
PositiveNumbers(numbers) == {i \in 1..Len(numbers) : numbers[i] > 0}

EntitiesAccepted(t, f) ==
    CASE t = "links" -> PositiveNumbers(f.numbers) # {}
      [] t \in {"travel_time", "throughput"} ->
            Strip(f.mainline) # "" /\ PositiveNumbers(f.numbers) # {}
      [] t = "network" -> f.metrics > 0
      [] OTHER -> TRUE

DirectoriesAccepted(f) ==
    /\ ~(Strip(f.path) # "" /\ ~IsDir(Strip(f.path)))
    /\ ~(Strip(f.resdir) # "" /\ ~IsDir(Strip(f.resdir)))

\* A period check that lets equal periods through.
PeriodsAcceptedStrict(f) ==
    ~(f.anyRun /\ PeriodInt(f.eval) < PeriodInt(f.seed))

PeriodsAccepted(f) ==
    ~(f.anyRun /\ PeriodInt(f.eval) <= PeriodInt(f.seed))

FormAccepted(t, f) ==
    /\ EntitiesAccepted(t, f)
    /\ DirectoriesAccepted(f)
    /\ PeriodsAccepted(f)

Form(anyRun, seed, eval, path, resdir, numbers, mainline, metrics) ==
    [anyRun |-> anyRun, seed |-> seed, eval |-> eval, path |-> path, resdir |-> resdir,
     numbers |-> numbers, mainline |-> mainline, metrics |-> metrics]

\* No form: the handler was not a collect action.
NoForm == Form(FALSE, <<>>, <<>>, "", "", <<>>, "", 0)

(***************************************************************************)
(* What a handler leaves behind for the user to see                        *)
(***************************************************************************)
NoCalForm ==
    [project_file |-> "", resdir |-> "", triplets |-> 0, random_selection |-> 0,
     subtrials |-> 0, scenarios |-> {}, seed |-> <<>>, eval |-> <<>>]

\* op: the handler; dialog: the QMessageBox it showed; stub: the stub it called and
\* with which Mistar_Solution; multiArg: the Multiple Scenarios combo read "Yes" at
\* the call; reqs: the HTTP requests it sent; snaps: the snapshots its forced
\* validations returned; raised: it ended by an exception nobody caught, which ends
\* the application; path: the file a Save Project handler was to write.
Did(op, tab, dialog, stub, mistarArg, multiArg, reqs, snaps, form, cform, raised) ==
    [op |-> op, tab |-> tab, dialog |-> dialog, stub |-> stub, mistarArg |-> mistarArg,
     multiArg |-> multiArg, reqs |-> reqs, snaps |-> snaps, form |-> form,
     cform |-> cform, raised |-> raised, path |-> ""]

Quiet(op, tab) ==
    Did(op, tab, "none", "none", FALSE, FALSE, <<>>, <<>>, NoForm, NoCalForm, FALSE)

\* The application runs: no exception has ended it and its window is not closed.
Running == ~last.raised /\ last.op # "close"

\* The application waits for the user: a zero timer that is pending fires before
\* the next click arrives.
Idle == Running /\ ~multi.pending

(***************************************************************************)
(* Results tabs: _on_collect                                               *)
(***************************************************************************)
\* NodesTab._on_collect asks for mistar_solution as well when the box is checked.
NeedsMistarGate(t, m) == t = "nodes" /\ m.checked

\* How _on_collect ends once the gates are behind it: snaps are the snapshots the
\* gates got, licensed whether they all granted, accepted whether the stub is called.
Gated(t, w, snaps, licensed, accepted) ==
    [w |-> w, snaps |-> snaps, redirected |-> ~licensed,
     dialog |-> IF accepted THEN "none" ELSE "warning",
     stub |-> IF accepted THEN StubOf(t) ELSE "none",
     mistarArg |-> accepted /\ t = "nodes" /\ w.mistar.checked]

\* NodesTab._on_collect after the gate on mistar_solution.
AfterMistarGate(t, f, snap1, g2) ==
    Gated(t, g2.w, <<snap1, g2.snap>>, SnapshotGrants(g2.snap, FEATURE_MISTAR),
          SnapshotGrants(g2.snap, FEATURE_MISTAR) /\ FormAccepted(t, f))

\* <Tab>._on_collect after the gate on results_basic got the snapshot g1.
AfterFirstGate(t, f, o2, g1) ==
    IF ~SnapshotGrants(g1.snap, GateFeature(t))
    THEN Gated(t, g1.w, <<g1.snap>>, FALSE, FALSE)
    ELSE IF NeedsMistarGate(t, g1.w.mistar)
         THEN AfterMistarGate(t, f, g1.snap, LicenseSnapshot(g1.w, o2))
         ELSE Gated(t, g1.w, <<g1.snap>>, TRUE, FormAccepted(t, f))

\* <Tab>._on_collect on the world w with the form f; o1 and o2 are what the server
\* does on the first and on the second forced validation.
CollectOutcome(t, w, f, o1, o2) == AfterFirstGate(t, f, o2, LicenseSnapshot(w, o1))

\* The state _on_collect leaves.  A failed gate calls _go_to_license_tab: the License
\* tab becomes current, and currentChanged runs _refresh_license_dependent_ui.
Collected(t, f, r) ==
    /\ lic' = r.w.lic
    /\ tokenFile' = r.w.file
    /\ curTab' = IF r.redirected THEN "license" ELSE curTab
    /\ mistar' = IF r.redirected THEN RefreshLicenseUi(r.w.lic, r.w.mistar) ELSE r.w.mistar
    /\ last' = Did("collect", t, r.dialog, r.stub, r.mistarArg, FALSE, r.w.reqs, r.snaps, f,
                   NoCalForm, FALSE)

Collect(t, f, o1, o2) ==
    /\ Idle
    /\ curTab = t
    /\ Collected(t, f, CollectOutcome(t, World(lic, tokenFile, mistar), f, o1, o2))
    /\ UNCHANGED <<requestsOk, multi, project, tabState>>

\* The user checks or unchecks "Enable Mistar Solution"; a disabled box takes no clicks.
ToggleMistar ==
    /\ Idle
    /\ curTab = "nodes"
    /\ mistar.enabled
    /\ mistar' = [mistar EXCEPT !.checked = ~mistar.checked]
    /\ last' = Quiet("toggle_mistar", "nodes")
    /\ UNCHANGED <<lic, tokenFile, requestsOk, curTab, multi, project, tabState>>

(***************************************************************************)
(* License tab: Activate, Validate, Deactivate                             *)
(***************************************************************************)
\* The message box _activate_clicked and _validate_clicked end with.
VerdictDialog(l) == IF l.app_enabled /\ l.valid THEN "information" ELSE "warning"

\* The state a handler of the license tab leaves when its call ended in the world w1.
LicenseClicked(op, w1, dialog) ==
    /\ lic' = w1.lic
    /\ tokenFile' = w1.file
    /\ mistar' = w1.mistar
    /\ last' = Did(op, "license", IF w1.raised THEN "none" ELSE dialog, "none", FALSE,
                   FALSE, w1.reqs, <<>>, NoForm, NoCalForm, w1.raised)

Activated(w1) == LicenseClicked("activate", w1, VerdictDialog(w1.lic))

\* LicenseTab._activate_clicked with the text of the key box.
Activate(key, o) ==
    /\ Idle
    /\ curTab = "license"
    /\ IF Strip(key) = ""
       THEN /\ last' = [Quiet("activate", "license") EXCEPT !.dialog = "warning"]
            /\ UNCHANGED <<lic, tokenFile, mistar>>
       ELSE Activated(ApplyServerState(
                [World(lic, tokenFile, mistar) EXCEPT !.reqs = Sent(<<>>, "/activate", Strip(key), o)],
                PostJson(o)))
    /\ UNCHANGED <<requestsOk, curTab, multi, project, tabState>>

Validated(w1) == LicenseClicked("validate", w1, VerdictDialog(w1.lic))

\* LicenseTab._validate_clicked
Validate(o) ==
    /\ Idle
    /\ curTab = "license"
    /\ Validated(ValidateAndCache(World(lic, tokenFile, mistar), o))
    /\ UNCHANGED <<requestsOk, curTab, multi, project, tabState>>

\* LicenseTab._deactivate_clicked: the answer of /deactivate is dropped.
Deactivate(o) ==
    /\ Idle
    /\ curTab = "license"
    /\ IF ReadToken(tokenFile) = ""
       THEN /\ last' = [Quiet("deactivate", "license") EXCEPT !.dialog = "information"]
            /\ UNCHANGED <<lic, tokenFile, mistar>>
       ELSE LicenseClicked("deactivate",
                ApplyServerState(
                    [World(lic, ClearToken(tokenFile), mistar) EXCEPT
                        !.reqs = Sent(<<>>, "/deactivate", ReadToken(tokenFile), o)],
                    LocalDict("UNACTIVATED")),
                "information")
    /\ UNCHANGED <<requestsOk, curTab, multi, project, tabState>>

(***************************************************************************)
(* Calibrator tab                                                          *)
(***************************************************************************)
\* Labels in other spellings that CalibratorTab also asks has_feature about.
LowerTier2 == "tier2"
SpacedTier2 == "tier 2"
LowerTier2M == "tier2m"
LowerTier2UnderM == "tier2_m"
SpacedTier2M == "tier 2_m"

\* CalibratorTab._has_any_entitlement: LicenseTab has no _features attribute, so
\* only has_feature decides.
HasAnyEntitlement(l, candidates) == \E name \in candidates : HasFeature(l.eff, name)

HasTier2OrBetter(l) ==
    HasAnyEntitlement(l, {TIER_3, FEATURE_ALL_ACCESS, TIER_2, SpacedTier2, LowerTier2,
                          FEATURE_CALIBRATOR_BASIC})

HasTier2mOrBetter(l) ==
    HasAnyEntitlement(l, {TIER_3, FEATURE_ALL_ACCESS, TIER_2_M, SpacedTier2M,
                          LowerTier2UnderM, LowerTier2M, FEATURE_MULTI_SCENARIO})

\* CalibratorTab._license_refresh_if_possible: exceptions are swallowed.
LicenseRefreshIfPossible(w, o) == [ValidateAndCache(w, o) EXCEPT !.raised = FALSE]

\* No enforcement at all: the combo stays as the user left it.
EnforceMultiScenariosLicenseSkipped(w, mu, o) == [w |-> w, multi |-> mu]

\* _enforce_multi_scenarios_license after its refresh ended in the world w1.
Enforced(w1, mu) ==
    [w |-> w1,
     multi |-> IF ~HasTier2mOrBetter(w1.lic)
               THEN [mu EXCEPT !.enabled = FALSE, !.text = "No"]
               ELSE [mu EXCEPT !.enabled = TRUE]]

\* CalibratorTab._enforce_multi_scenarios_license on the combo mu = [enabled, text, pending].
EnforceMultiScenariosLicense(w, mu, o) == Enforced(LicenseRefreshIfPossible(w, o), mu)

ProjectInpx == "C:/project/net.inpx"

\* os.path.isfile(p) and p.lower().endswith(".inpx")
IsInpxFile(p) == p = ProjectInpx

\* The checks of _on_run between the license checks and Calibration_Function.
CalFormAccepted(cf, Multiple_Scenarios) ==
    /\ ~(Strip(cf.project_file) # "" /\ ~IsInpxFile(Strip(cf.project_file)))
    /\ ~(Strip(cf.resdir) # "" /\ ~IsDir(Strip(cf.resdir)))
    /\ cf.triplets # 0
    /\ ~(cf.random_selection >= cf.subtrials)
    /\ (~Multiple_Scenarios => Cardinality(cf.scenarios) <= 1)
    /\ ~(PeriodInt(cf.eval) <= PeriodInt(cf.seed))

\* _on_run from the read of the Multiple Scenarios combo on; e is what the
\* enforcement left.
RunAfterEnforce(cf, e, accepted) ==
    /\ lic' = e.w.lic
    /\ tokenFile' = e.w.file
    /\ mistar' = e.w.mistar
    /\ curTab' = curTab
    /\ multi' = e.multi
    /\ last' = Did("run", "calibrator", IF accepted THEN "none" ELSE "warning",
                   IF accepted THEN "Calibration_Function" ELSE "none", FALSE,
                   accepted /\ e.multi.text = "Yes", e.w.reqs, <<>>, NoForm, cf, FALSE)

RunEnforced(cf, e) == RunAfterEnforce(cf, e, CalFormAccepted(cf, e.multi.text = "Yes"))

\* _on_run after its first refresh ended in the world w1.
RunAfterRefresh(cf, o2, w1) ==
    IF ~HasTier2OrBetter(w1.lic)
    THEN /\ lic' = w1.lic
         /\ tokenFile' = w1.file
         /\ mistar' = RefreshLicenseUi(w1.lic, w1.mistar)
         /\ curTab' = "license"
         /\ multi' = multi
         /\ last' = Did("run", "calibrator", "information", "none", FALSE, FALSE, w1.reqs,
                        <<>>, NoForm, cf, FALSE)
    ELSE RunEnforced(cf, EnforceMultiScenariosLicense(w1, multi, o2))

\* CalibratorTab._on_run with the form cf; o1 and o2 are what the server does on the
\* two forced validations.
Run(cf, o1, o2) ==
    /\ Idle
    /\ curTab = "calibrator"
    /\ RunAfterRefresh(cf, o2, LicenseRefreshIfPossible(World(lic, tokenFile, mistar), o1))
    /\ UNCHANGED <<requestsOk, project, tabState>>

Timed(e) ==
    /\ lic' = e.w.lic
    /\ tokenFile' = e.w.file
    /\ mistar' = e.w.mistar
    /\ multi' = [e.multi EXCEPT !.pending = FALSE]
    /\ last' = Did("enforce_timer", "calibrator", "none", "none", FALSE, FALSE, e.w.reqs,
                   <<>>, NoForm, NoCalForm, FALSE)

\* The zero timer that CalibratorTab.showEvent starts.
EnforceTimer(o) ==
    /\ Running
    /\ multi.pending
    /\ Timed(EnforceMultiScenariosLicense(World(lic, tokenFile, mistar), multi, o))
    /\ UNCHANGED <<requestsOk, curTab, project, tabState>>

\* The user picks an item of the Multiple Scenarios combo; a disabled combo takes none.
SetMultipleScenarios(text) ==
    /\ Idle
    /\ curTab = "calibrator"
    /\ multi.enabled
    /\ text # multi.text
    /\ multi' = [multi EXCEPT !.text = text]
    /\ last' = Quiet("set_multiple_scenarios", "calibrator")
    /\ UNCHANGED <<lic, tokenFile, requestsOk, curTab, mistar, project, tabState>>

(***************************************************************************)
(* Main window                                                             *)
(***************************************************************************)
\* The user clicks a tab: currentChanged runs _refresh_license_dependent_ui, and the
\* calibrator tab's showEvent starts its timer.
SelectTab(t) ==
    /\ Idle
    /\ t # curTab
    /\ curTab' = t
    /\ mistar' = RefreshLicenseUi(lic, mistar)
    /\ multi' = IF t = "calibrator" THEN [multi EXCEPT !.pending = TRUE] ELSE multi
    /\ last' = Quiet("select_tab", t)
    /\ UNCHANGED <<lic, tokenFile, requestsOk, project, tabState>>

(***************************************************************************)
(* File menu: Save Project                                                 *)
(***************************************************************************)
\* The keys of "tabs" in _collect_layout, in the order the dict is built.
LayoutTabKeys == <<"nodes", "links", "travel_time", "throughput", "network",
                   "calibrator", "license_tab">>

\* Whether the class of the tab defines export_state: the five results tabs do,
\* CalibratorTab and LicenseTab do not.
HasExportState(key) == key \notin {"calibrator", "license_tab"}

\* VissiCaReMainWindow has no _set_dirty and no _maybe_save: they are defined in a
\* CollapsibleSection class.
MainWindowMethods ==
    {"_build_menu_bar", "_collect_layout", "_apply_layout", "_save_layout_to_path",
     "_open_layout_from_path", "_save_layout", "_save_layout_as", "_open_layout_dialog",
     "_new_project", "_refresh_license_dependent_ui"}

NoDoc == [written |-> FALSE, keys |-> {}, tabs |-> {}]

\* VissiCaReMainWindow._collect_layout: the document, or an AttributeError.
CollectLayout ==
    IF \E i \in 1..Len(LayoutTabKeys) : ~HasExportState(LayoutTabKeys[i])
    THEN [raised |-> TRUE, doc |-> NoDoc]
    ELSE [raised |-> FALSE,
          doc |-> [written |-> TRUE, keys |-> {"layout_version", "license_state", "tabs"},
                   tabs |-> {LayoutTabKeys[i] : i \in 1..Len(LayoutTabKeys)}]]

\* VissiCaReMainWindow._save_layout_to_path on p = [layout_path, disk].
SaveLayoutToPath(p, path) ==
    LET c == CollectLayout
    IN  IF c.raised THEN [p |-> p, raised |-> TRUE]
        ELSE [p |-> [layout_path |-> path, disk |-> [p.disk EXCEPT ![path] = c.doc]],
              raised |-> "_set_dirty" \notin MainWindowMethods]

LayoutPaths == {"a.layx", "b.layx"}

\* QFileDialog.getSaveFileName: "" when cancelled; ".layx" is appended when missing.
WithLayxSuffix(name) ==
    CASE name = "a" -> "a.layx"
      [] name = "b" -> "b.layx"
      [] OTHER -> name

\* VissiCaReMainWindow._save_layout (Save Project); chosen is what the file dialog
\* returns when there is no layout path yet.
SaveLayout(chosen) ==
    /\ Idle
    /\ LET path == IF project.layout_path # "" THEN project.layout_path
                   ELSE IF chosen = "" THEN "" ELSE WithLayxSuffix(chosen)
       IN  IF path = ""
           THEN /\ project' = project
                /\ last' = Quiet("save_project", curTab)
           ELSE LET r == SaveLayoutToPath(project, path)
                IN  /\ project' = r.p
                    /\ last' = [Quiet("save_project", curTab) EXCEPT
                                   !.dialog = IF r.raised THEN "critical" ELSE "none",
                                   !.path = path]
    /\ UNCHANGED <<lic, tokenFile, requestsOk, curTab, mistar, multi, tabState>>

\* VissiCaReMainWindow._save_layout_as (Save Project As...)
SaveLayoutAs(chosen) ==
    /\ Idle
    /\ IF chosen = ""
       THEN /\ project' = project
            /\ last' = Quiet("save_project_as", curTab)
       ELSE LET r == SaveLayoutToPath(project, WithLayxSuffix(chosen))
            IN  /\ project' = r.p
                /\ last' = [Quiet("save_project_as", curTab) EXCEPT
                               !.dialog = IF r.raised THEN "critical" ELSE "none",
                               !.path = WithLayxSuffix(chosen)]
    /\ UNCHANGED <<lic, tokenFile, requestsOk, curTab, mistar, multi, tabState>>

(***************************************************************************)
(* Results tabs: export_state and import_state                             *)
(***************************************************************************)
\* str(n) for a number n >= 0, as a sequence of digits.
RECURSIVE Digits(_)
Digits(n) == IF n < 10 THEN <<n>> ELSE Append(Digits(n \div 10), n % 10)

\* DigitsLineEdit.as_int
AsInt(text) == IF text = <<>> THEN 0 ELSE DecimalValue(text)

BoxesOf(numbers) == [i \in 1..Len(numbers) |-> Digits(numbers[i])]

\* The number boxes of the first row of a new tab: the link boxes of "Segment 1",
\* the number boxes of "Interstate 1", the From/To pair of a node row.
DefaultNumbers(t) ==
    CASE t = "nodes" -> <<1, 2>>
      [] t = "links" -> <<1, 2, 3>>
      [] t = "travel_time" -> <<1, 2, 3, 4>>
      [] t = "throughput" -> <<100, 101, 102>>
      [] OTHER -> <<>>

NoRoundTrip == [done |-> FALSE, raised |-> FALSE, exported |-> <<>>, reexported |-> <<>>]

\* The widgets of a results tab that the model follows: the file name of the project
\* setup, the Run Model boxes of the scenario rows, the number boxes of the first
\* row; rt is the outcome of import_state(export_state()) on a new tab.
FreshTab(t) ==
    [tab |-> t, filename |-> "", runs |-> <<FALSE>>, boxes |-> BoxesOf(DefaultNumbers(t)),
     rt |-> NoRoundTrip]

\* <Tab>.export_state with the Mistar box m (only NodesTab has one).
ExportState(ts, m) ==
    [project |-> [filename |-> ts.filename],
     scenarios |-> [count |-> Len(ts.runs), rows |-> ts.runs],
     numbers |-> [i \in 1..Len(ts.boxes) |-> AsInt(ts.boxes[i])],
     mistar |-> ts.tab = "nodes" /\ m.checked]

\* The module defines no function _project_file_from_parts, which
\* import_project_setup calls.
ModuleFunctions == {"_set_combo_text", "_qdate_to_str", "_str_to_qdate", "_force_input_bg"}

IsPositive(n) == n > 0

\* The numbers import_state makes the boxes of a row from.
ImportedNumbers(t, numbers) ==
    LET kept == IF t = "links" THEN SelectSeq(numbers, IsPositive) ELSE numbers
    IN  IF t \in {"links", "travel_time", "throughput"} /\ kept = <<>> THEN <<1>> ELSE kept

\* A tab that is in no window finds no license tab: _has_feature is False.
NoLicenseTab == LicState(TRUE, FALSE, "UNACTIVATED", {}, {})

\* <Tab>.import_state(d) on the tab ts with the Mistar box m: the tab and the box
\* afterwards, and whether an exception came out.
ImportState(ts, m, d) ==
    LET setup == [ts EXCEPT !.filename = d.project.filename]
        count == IF d.scenarios.count > 1 THEN d.scenarios.count ELSE 1
        rows == d.scenarios.rows
        filled == [setup EXCEPT
                      !.runs = [i \in 1..count |-> IF i <= Len(rows) THEN rows[i] ELSE FALSE],
                      !.boxes = BoxesOf(ImportedNumbers(ts.tab, d.numbers))]
    IN  IF "_project_file_from_parts" \notin ModuleFunctions
        THEN [ts |-> setup, m |-> m, raised |-> TRUE]
        ELSE [ts |-> filled,
              m |-> IF ts.tab = "nodes"
                    THEN RefreshLicenseUi(NoLicenseTab, [m EXCEPT !.checked = d.mistar])
                    ELSE m,
              raised |-> FALSE]

(***************************************************************************)
(* Start of the application                                                *)
(***************************************************************************)
UncheckedBox == [enabled |-> FALSE, checked |-> FALSE]
NewCombo == [enabled |-> TRUE, text |-> "No", pending |-> FALSE]
NewProjectState == [layout_path |-> "", disk |-> [path \in LayoutPaths |-> NoDoc]]

\* main(): the tabs are built (NodesTab before LicenseTab, so the Mistar box starts
\* locked), the license tab loads the cache file, the Nodes tab is shown.
Started(f) ==
    /\ lic' = LoadAndSoftValidateOnOpen(f)
    /\ curTab' = "nodes"
    /\ mistar' = UncheckedBox
    /\ multi' = NewCombo
    /\ last' = Quiet("start", "nodes")

\* The application is closed, or has ended by an exception, and is started again.
Restart ==
    /\ Started(tokenFile)
    /\ project' = [project EXCEPT !.layout_path = ""]
    /\ UNCHANGED <<tokenFile, requestsOk, tabState>>

(***************************************************************************)
(* What the server may do to one request, and what the user may have typed *)
(***************************************************************************)
Granted(items, token) ==
    ReplyOutcome(Body(TRUE, TRUE, "OK", FeatureList(items), AbsentFeatures, token))

Refused(reason, items) ==
    ReplyOutcome(Body(TRUE, FALSE, reason, AbsentFeatures, FeatureList(items), ""))

Outcomes ==
    {Granted({}, "tok1"), Granted({TIER_1}, "tok1"), Granted({TIER_1_M}, "tok1"),
     Granted({TIER_1, TIER_1_M}, ""), Granted({TIER_2}, "tok1"), Granted({TIER_2_M}, ""),
     Granted({LowerTier2, LowerTier2M}, "tok1"), Granted({TIER_3}, ""),
     Refused("EXPIRED", {}), Refused("EXPIRED", {TIER_1}),
     ReplyOutcome(Body(FALSE, TRUE, "OK", FeatureList({TIER_1}), AbsentFeatures, "")),
     ReplyOutcome(NonDictBody), RaiseOutcome, UndecodableOutcome}

MaxPeriod == 1

\* The numeral of n as typed.
Numeral(n) == <<n>>

PeriodTexts == {<<>>} \cup {Numeral(n) : n \in 0..MaxPeriod}

\* A form that passes every check but the one on the periods.
FilledForm(anyRun, seed, eval) ==
    Form(anyRun, seed, eval, ExistingDir, ExistingDir, <<1>>, "Main", 1)

Forms ==
    {FilledForm(TRUE, Numeral(0), Numeral(1)), FilledForm(TRUE, Numeral(1), Numeral(1)),
     Form(FALSE, Numeral(0), Numeral(1), MissingDir, ExistingDir, <<1>>, "Main", 1)}

CalForm(resdir, scenarios, seed, eval) ==
    [project_file |-> ProjectInpx, resdir |-> resdir, triplets |-> 1,
     random_selection |-> 1, subtrials |-> 2, scenarios |-> scenarios,
     seed |-> seed, eval |-> eval]

CalForms ==
    {CalForm(ExistingDir, {1}, Numeral(0), Numeral(1)),
     CalForm(ExistingDir, {1, 2}, Numeral(0), Numeral(1)),
     CalForm(MissingDir, {1}, Numeral(0), Numeral(1))}

\* The application after its first start on a machine.
Constructed ==
    /\ tokenFile = NoFile
    /\ requestsOk \in BOOLEAN
    /\ lic = LoadAndSoftValidateOnOpen(NoFile)
    /\ curTab = "nodes"
    /\ mistar = UncheckedBox
    /\ multi = NewCombo
    /\ project = NewProjectState
    /\ last = Quiet("start", "nodes")

Init == Constructed /\ tabState = FreshTab("nodes")

\* What the server may do to a request of the next handler; when the handler sends
\* none (no requests package, or no token to validate) there is nothing to choose.
ValidateAnswers == IF requestsOk /\ ReadToken(tokenFile) # "" THEN Outcomes ELSE {RaiseOutcome}
ActivateAnswers == IF requestsOk THEN Outcomes ELSE {RaiseOutcome}
MistarAnswers == IF curTab = "nodes" /\ mistar.checked THEN ValidateAnswers ELSE {RaiseOutcome}

CollectStep ==
    \E t \in ResultsTabs, f \in Forms, o1 \in ValidateAnswers, o2 \in MistarAnswers :
        Collect(t, f, o1, o2)
ActivateStep == \E key \in {BlankEntry, "KEY-1"}, o \in ActivateAnswers : Activate(key, o)
ValidateStep == \E o \in ValidateAnswers : Validate(o)
DeactivateStep == \E o \in ValidateAnswers : Deactivate(o)
RunStep == \E cf \in CalForms, o1, o2 \in ValidateAnswers : Run(cf, o1, o2)
EnforceTimerStep == \E o \in ValidateAnswers : EnforceTimer(o)
SetMultipleScenariosStep == \E text \in {"No", "Yes"} : SetMultipleScenarios(text)
SelectTabStep == \E t \in AppTabs : SelectTab(t)
SaveLayoutStep == \E chosen \in {"", "a", "b.layx"} : SaveLayout(chosen)
SaveLayoutAsStep == \E chosen \in {"", "a", "b.layx"} : SaveLayoutAs(chosen)

Next ==
    \/ CollectStep
    \/ ToggleMistar
    \/ ActivateStep
    \/ ValidateStep
    \/ DeactivateStep
    \/ RunStep
    \/ EnforceTimerStep
    \/ SetMultipleScenariosStep
    \/ SelectTabStep
    \/ SaveLayoutStep
    \/ SaveLayoutAsStep
    \/ Restart

Spec == Init /\ [][Next]_vars

FailedKinds == {"raise", "undecodable"}

\* C5 as stated: a request that raises, times out or returns an undecodable body
\* gives NO_INTERNET; it is the only request of the action; the license state is
\* then invalid with no effective feature.
C5_EveryFailureIsNoInternet ==
    (/\ last.op \in {"activate", "validate", "collect", "run", "enforce_timer"}
     /\ Len(last.reqs) >= 1
     /\ last.reqs[Len(last.reqs)].outcome \in FailedKinds)
    => /\ Len(last.reqs) = 1
       /\ lic.reason = "NO_INTERNET"
       /\ lic.app_enabled /\ ~lic.valid /\ lic.eff = {}

\* C5, amended: a request that raises or times out gives NO_INTERNET and a body
\* that cannot be decoded gives BAD_SERVER_RESPONSE; no request follows a failed
\* one in the same action; once the result is applied the license state is
\* enabled, invalid and without effective features.
C5_FailureReasonsNoRetry ==
    /\ \A i \in 1..Len(last.reqs) :
           last.reqs[i].outcome \in FailedKinds => i = Len(last.reqs)
    /\ (/\ last.op \in {"activate", "validate", "collect", "run", "enforce_timer"}
        /\ Len(last.reqs) >= 1
        /\ last.reqs[Len(last.reqs)].outcome \in FailedKinds)
       => /\ lic.reason = IF last.reqs[Len(last.reqs)].outcome = "raise"
                          THEN "NO_INTERNET" ELSE "BAD_SERVER_RESPONSE"
          /\ lic.app_enabled /\ ~lic.valid /\ lic.eff = {}

\* Validate got a body that is no JSON.
C5_Witness ==
    /\ last.op = "validate"
    /\ Len(last.reqs) = 1
    /\ last.reqs[1].outcome = "undecodable"
    /\ lic.reason = "BAD_SERVER_RESPONSE"

\* C6: Save Project to a path writes a document with the keys layout_version,
\* license_state and tabs, tabs holding the seven tab keys, without an error dialog,
\* and the layout path is then that path.
C6_SaveProjectWritesLayout ==
    (last.op \in {"save_project", "save_project_as"} /\ last.path # "")
    => /\ last.dialog = "none"
       /\ project.layout_path = last.path
       /\ project.disk[last.path].written
       /\ project.disk[last.path].keys = {"layout_version", "license_state", "tabs"}
       /\ project.disk[last.path].tabs
              = {"nodes", "links", "travel_time", "throughput", "network", "calibrator",
                 "license_tab"}

\* C7: when the cache file holds a token, its cached_validation is the license state
\* that the last applied server response produced.
C7_CacheHoldsLastAppliedResponse ==
    (/\ last.op \in {"activate", "validate", "collect"}
     /\ ~last.raised
     /\ Len(last.reqs) >= 1
     /\ last.reqs[Len(last.reqs)].outcome = "reply"
     /\ ReadToken(tokenFile) # "")
    => /\ tokenFile.hasCache
       /\ tokenFile.cache = lic

\* C8: Collect Network Results with a form that passes the checks invokes
\* Network_Results whatever the license state is.
C8_NetworkResultsNeedsNoLicense ==
    (/\ last.op = "collect"
     /\ last.tab = "network"
     /\ FormAccepted("network", last.form))
    => last.stub = "Network_Results"

\* C9: the Mistar box is enabled, and Simulation_Nodes is invoked with
\* Mistar_Solution = True, only if the raw list of the license holds Tier1 and
\* Tier1_M, or Tier3.
C9_MistarNeedsTier1AndTier1M ==
    (mistar.enabled \/ (last.stub = "Simulation_Nodes" /\ last.mistarArg))
    => LET raw == {Strip(x) : x \in lic.raw}
       IN  TIER_3 \in raw \/ {TIER_1, TIER_1_M} \subseteq raw

\* C10 as stated: Calibration_Function runs with Multiple Scenarios "Yes" only if
\* has_feature holds for Tier2_M, multi_scenario_calibration, Tier3 or all_access.
C10_MultiOnlyWithTier2MOrTier3 ==
    (last.op = "run" /\ last.stub = "Calibration_Function" /\ last.multiArg)
    => \E name \in {TIER_2_M, FEATURE_MULTI_SCENARIO, TIER_3, FEATURE_ALL_ACCESS} :
           HasFeature(lic.eff, name)

\* C10, amended: Calibration_Function runs with Multiple Scenarios "Yes" only if, at
\* the run, has_feature holds for one of the names _has_tier2m_or_better asks for:
\* Tier3, all_access, Tier2_M, "tier 2_m", "tier2_m", "tier2m" or
\* multi_scenario_calibration.
C10_MultiOnlyWithAnAskedName ==
    (last.op = "run" /\ last.stub = "Calibration_Function" /\ last.multiArg)
    => \E name \in {TIER_3, FEATURE_ALL_ACCESS, TIER_2_M, SpacedTier2M, LowerTier2UnderM,
                    LowerTier2M, FEATURE_MULTI_SCENARIO} :
           HasFeature(lic.eff, name)

\* A run with Multiple Scenarios "Yes" under a Tier2_M license.
C10_Witness ==
    /\ last.op = "run"
    /\ last.stub = "Calibration_Function"
    /\ last.multiArg
    /\ TIER_2_M \in lic.raw
    /\ Len(last.reqs) = 2

\* C14: an Activate that got a valid answer with an activation_token leaves that token
\* in the cache file; and while a token is stored, every handler but Deactivate
\* leaves a token stored, sends nothing but /validate requests when it is a
\* validation (Validate, collect, run, the calibrator's timer), sends at least one
\* of them when the server can be reached, and sends the stored token in the first
\* and a token in all of them; no validation sends the license key.
C14_ActivationStoredItsToken ==
    (/\ last.op = "activate"
     /\ Len(last.reqs) = 1
     /\ last.reqs[1].outcome = "reply"
     /\ last.reqs[1].answered # ""
     /\ lic.valid)
    => ReadToken(tokenFile) = last.reqs[1].answered

LabelsTried == {TIER_1, TIER_1_M, TIER_2_M, TIER_3, PaddedTier3, BlankEntry, FEATURE_ALL_ACCESS}

FeatureValuesTried == {AbsentFeatures, NonListFeatures} \cup {FeatureList(S) : S \in SUBSET LabelsTried}

TopValuesTried == {AbsentFeatures, NonListFeatures, FeatureList({}), FeatureList({TIER_1}),
                   FeatureList({TIER_3})}

\* A feature name no tier expands to.
OtherFeature == "report_export"

\* _apply_server_state on one response.
ApplyResponse(data) ==
    /\ Idle
    /\ LicenseClicked("apply_server_state",
                      ApplyServerState(World(lic, tokenFile, mistar), data), "none")
    /\ UNCHANGED <<requestsOk, curTab, multi, project, tabState>>

ApplyResponseStep ==
    \E valid \in BOOLEAN, ent \in FeatureValuesTried, top \in TopValuesTried :
        ApplyResponse(Body(TRUE, valid, "OK", ent, top, ""))

NextFeatures == ApplyResponseStep

SpecFeatures == Init /\ [][NextFeatures]_vars

\* C2: after _apply_server_state on a response whose feature list (the one read:
\* entitlements.features when that key is there, else features) contains "Tier3",
\* has_feature is true for every feature name, whatever else the list holds.
C2_Tier3GrantsEveryFeature ==
    (last.op = "apply_server_state" /\ TIER_3 \in lic.raw)
    => \A x \in TierNames \cup GateFeatures \cup {OtherFeature} : HasFeature(lic.eff, x)

\* Tier3 came with other entries, in a response that is not valid.
C2_Witness ==
    /\ last.op = "apply_server_state"
    /\ {TIER_3, TIER_1, BlankEntry} \subseteq lic.raw
    /\ ~lic.valid

\* C11: after _apply_server_state on a valid response of an enabled application whose
\* raw feature list holds "Tier3" or "all_access", the gate of the results tabs
\* (membership in the features of the snapshot) decides as has_feature does for
\* results_basic and for mistar_solution: both grant.
C11_AllAccessPassesTheGates ==
    (/\ last.op = "apply_server_state"
     /\ lic.app_enabled /\ lic.valid
     /\ (TIER_3 \in lic.raw \/ FEATURE_ALL_ACCESS \in lic.raw))
    => \A f \in {FEATURE_RESULTS_BASIC, FEATURE_MISTAR} :
           /\ HasFeature(lic.eff, f)
           /\ SnapshotGrants(CurrentStateDict(lic), f) = HasFeature(lic.eff, f)

(***************************************************************************)
(* SpecForms: the collect actions on every form over the period texts      *)
(***************************************************************************)
FormsTried ==
    {Form(anyRun, seed, eval, ExistingDir, resdir, numbers, "Main", 1) :
        anyRun \in BOOLEAN, seed \in PeriodTexts, eval \in PeriodTexts,
        resdir \in {"", MissingDir}, numbers \in {<<0>>, <<0, 1>>}}

AnswersTried ==
    {Granted({TIER_1, TIER_1_M}, "tok1"), Granted({}, ""), RaiseOutcome}

CollectFormsStep ==
    \E t \in ResultsTabs, f \in FormsTried :
        \E o1 \in AnswersTried, o2 \in AnswersTried : Collect(t, f, o1, o2)

ActivateFormsStep == \E o \in AnswersTried : Activate("KEY-1", o)

SelectResultsTabStep == \E t \in ResultsTabs \cup {"license"} : SelectTab(t)

NextForms ==
    \/ CollectFormsStep
    \/ ActivateFormsStep
    \/ SelectResultsTabStep
    \/ ToggleMistar

SpecForms == Init /\ [][NextForms]_vars

\* C3: in every results tab, a collect action with a scenario row marked Run Model
\* and Evaluation Period <= Seeding Period ends with a warning and does not invoke
\* the tab's stub.
C3_EvalNotAfterSeedBlocksCollect ==
    (/\ last.op = "collect"
     /\ last.form.anyRun
     /\ PeriodInt(last.form.eval) <= PeriodInt(last.form.seed))
    => /\ last.dialog = "warning"
       /\ last.stub = "none"

\* The license gate let the action through and only the periods stopped it, with
\* equal periods.
C3_Witness ==
    /\ last.op = "collect"
    /\ last.tab = "throughput"
    /\ curTab = "throughput"
    /\ last.form.anyRun
    /\ last.form.eval = Numeral(1)
    /\ last.form.seed = Numeral(1)
    /\ EntitiesAccepted(last.tab, last.form)
    /\ DirectoriesAccepted(last.form)
    /\ last.dialog = "warning"

\* C15: in every results tab the stub is invoked only with a Project Path and a
\* Results Directory that are existing directories; a field left empty is not one.
C15_StubOnlyWithExistingDirectories ==
    (last.op = "collect" /\ last.stub # "none")
    => /\ IsDir(Strip(last.form.path))
       /\ IsDir(Strip(last.form.resdir))

(***************************************************************************)
(* SpecRoundTrip: edits of one results tab, then import_state of its       *)
(* export_state on a new tab                                               *)
(***************************************************************************)
MaxBoxes == 3
MaxRows == 2

\* What the user leaves in a number box: nothing, or a zero.
BoxTexts == {<<>>, Numeral(0)}

Editing == Idle /\ curTab = tabState.tab

Edited(ts) ==
    /\ tabState' = [ts EXCEPT !.rt = NoRoundTrip]
    /\ last' = Quiet("edit", curTab)
    /\ UNCHANGED <<lic, tokenFile, requestsOk, curTab, mistar, multi, project>>

TypeFilename(text) ==
    /\ Editing
    /\ text # tabState.filename
    /\ Edited([tabState EXCEPT !.filename = text])

\* _add_scenario_row_btn and _remove_scenario_row_btn, through the spin box.
AddScenarioRow ==
    /\ Editing
    /\ Len(tabState.runs) < MaxRows
    /\ Edited([tabState EXCEPT !.runs = Append(@, FALSE)])

RemoveScenarioRow ==
    /\ Editing
    /\ Len(tabState.runs) > 1
    /\ Edited([tabState EXCEPT !.runs = SubSeq(@, 1, Len(@) - 1)])

ToggleRunModel ==
    /\ Editing
    /\ Edited([tabState EXCEPT !.runs[1] = ~@])

TypeBox(i, text) ==
    /\ Editing
    /\ i \in 1..Len(tabState.boxes)
    /\ text # tabState.boxes[i]
    /\ Edited([tabState EXCEPT !.boxes[i] = text])

\* add_number_box(None) and remove_number_box of a row; a node row has no such buttons.
AddBox ==
    /\ Editing
    /\ tabState.tab \in {"links", "travel_time", "throughput"}
    /\ Len(tabState.boxes) < MaxBoxes
    /\ Edited([tabState EXCEPT !.boxes = Append(@, <<>>)])

RemoveBox ==
    /\ Editing
    /\ tabState.tab \in {"links", "travel_time", "throughput"}
    /\ Len(tabState.boxes) > 0
    /\ Edited([tabState EXCEPT !.boxes = SubSeq(@, 1, Len(@) - 1)])

\* import_state(export_state()) of the tab on a new tab of its class.
RoundTrip ==
    /\ Idle
    /\ ~tabState.rt.done
    /\ LET d == ExportState(tabState, mistar)
           r == ImportState(FreshTab(tabState.tab), UncheckedBox, d)
       IN  tabState' = [tabState EXCEPT
                           !.rt = [done |-> TRUE, raised |-> r.raised, exported |-> d,
                                   reexported |-> ExportState(r.ts, r.m)]]
    /\ last' = Quiet("round_trip", curTab)
    /\ UNCHANGED <<lic, tokenFile, requestsOk, curTab, mistar, multi, project>>

InitRoundTrip == Constructed /\ tabState \in {FreshTab(t) : t \in ResultsTabs}

TypeFilenameStep == \E text \in {"", "net"} : TypeFilename(text)
TypeBoxStep == \E i \in 1..MaxBoxes, text \in BoxTexts : TypeBox(i, text)
ActivateTier1MStep == Activate("KEY-1", Granted({TIER_1, TIER_1_M}, "tok1"))
SelectFollowedTabStep == \E t \in {tabState.tab, "license"} : SelectTab(t)

NextRoundTrip ==
    \/ TypeFilenameStep
    \/ AddScenarioRow
    \/ RemoveScenarioRow
    \/ ToggleRunModel
    \/ TypeBoxStep
    \/ AddBox
    \/ RemoveBox
    \/ ActivateTier1MStep
    \/ SelectFollowedTabStep
    \/ ToggleMistar
    \/ RoundTrip

SpecRoundTrip == InitRoundTrip /\ [][NextRoundTrip]_vars

\* C1: for every results tab and every state reached by edits, import_state of the
\* exported state on a new tab raises nothing and leaves a tab whose export_state
\* equals the exported state.
C1_ImportOfExportReproducesState ==
    tabState.rt.done =>
        /\ ~tabState.rt.raised
        /\ tabState.rt.reexported = tabState.rt.exported

(***************************************************************************)
(* SpecOpen: the application is opened on the cache files the license tab  *)
(* leaves, and on a file that holds a token without cached_validation      *)
(***************************************************************************)
\* A cache file with an activation_token and no cached_validation: what
\* _save_token(token) writes when it is given no cache.
TokenOnlyFile == [exists |-> TRUE, token |-> "tok1", hasCache |-> FALSE, cache |-> InitialLic]

InitOpen ==
    /\ tokenFile \in {NoFile, TokenOnlyFile}
    /\ requestsOk \in BOOLEAN
    /\ lic = LoadAndSoftValidateOnOpen(tokenFile)
    /\ curTab = "nodes"
    /\ mistar = UncheckedBox
    /\ multi = NewCombo
    /\ project = NewProjectState
    /\ last = Quiet("start", "nodes")
    /\ tabState = FreshTab("nodes")

NextOpen ==
    \/ ActivateStep
    \/ ValidateStep
    \/ DeactivateStep
    \/ SelectTabStep
    \/ Restart

SpecOpen == InitOpen /\ [][NextOpen]_vars

\* C12: when the application has just been opened, no request was sent to the license
\* server; the license state is the cached validation when the cache file has one,
\* else its reason is NEEDS_VALIDATION when a token is stored, else it is
\* UNACTIVATED, not valid and without features.
C12_OpeningSendsNoRequest ==
    last.op = "start" =>
        /\ last.reqs = <<>>
        /\ IF tokenFile.exists /\ tokenFile.hasCache
           THEN /\ lic.app_enabled = tokenFile.cache.app_enabled
                /\ lic.valid = tokenFile.cache.valid
                /\ lic.reason = tokenFile.cache.reason
                /\ lic.raw = tokenFile.cache.raw
                /\ lic.eff = tokenFile.cache.eff
           ELSE IF ReadToken(tokenFile) # ""
                THEN lic.reason = "NEEDS_VALIDATION"
                ELSE lic.reason = "UNACTIVATED" /\ ~lic.valid /\ lic.raw = {} /\ lic.eff = {}

\* The application was opened on a cache file that holds a valid Tier1 validation.
C12_Witness ==
    /\ last.op = "start"
    /\ tokenFile.exists /\ tokenFile.hasCache
    /\ lic.valid
    /\ TIER_1 \in lic.raw
    /\ FEATURE_RESULTS_BASIC \in lic.eff

(***************************************************************************)
(* SpecProject: the File menu and the window's close button                *)
(***************************************************************************)
\* The state _new_project leaves once it is past _maybe_save: new tabs (a new
\* LicenseTab reads the cache file again), no layout path, the same tab current.
NewProjectBuilt ==
    /\ lic' = LoadAndSoftValidateOnOpen(tokenFile)
    /\ mistar' = RefreshLicenseUi(LoadAndSoftValidateOnOpen(tokenFile), UncheckedBox)
    /\ multi' = [NewCombo EXCEPT !.pending = curTab = "calibrator"]
    /\ project' = [project EXCEPT !.layout_path = ""]
    /\ tabState' = FreshTab(tabState.tab)
    /\ last' = Quiet("new_project", curTab)

\* VissiCaReMainWindow._new_project: self._maybe_save is looked up first.
NewProject ==
    /\ Idle
    /\ IF "_maybe_save" \notin MainWindowMethods
       THEN /\ last' = [Quiet("new_project", curTab) EXCEPT !.raised = TRUE]
            /\ UNCHANGED <<lic, mistar, multi, project, tabState>>
       ELSE NewProjectBuilt
    /\ UNCHANGED <<tokenFile, requestsOk, curTab>>

\* VissiCaReMainWindow._open_layout_dialog; chosen is what getOpenFileName returns.
\* Past _maybe_save, a file that cannot be read or applied ends in a critical box.
OpenLayoutDialog(chosen) ==
    /\ Idle
    /\ IF "_maybe_save" \notin MainWindowMethods
       THEN last' = [Quiet("open_project", curTab) EXCEPT !.raised = TRUE]
       ELSE IF chosen = ""
            THEN last' = Quiet("open_project", curTab)
            ELSE last' = [Quiet("open_project", curTab) EXCEPT !.dialog = "critical",
                                                               !.path = chosen]
    /\ UNCHANGED <<lic, tokenFile, requestsOk, curTab, mistar, multi, project, tabState>>

\* The close button and File > Exit: VissiCaReMainWindow defines no closeEvent, so
\* QMainWindow accepts the event and the application ends.
CloseWindow ==
    /\ Idle
    /\ last' = Quiet("close", curTab)
    /\ UNCHANGED <<lic, tokenFile, requestsOk, curTab, mistar, multi, project, tabState>>

NextProject ==
    \/ NewProject
    \/ \E chosen \in {"", "a.layx"} : OpenLayoutDialog(chosen)
    \/ CloseWindow
    \/ SaveLayoutStep
    \/ SaveLayoutAsStep
    \/ ActivateStep
    \/ SelectTabStep
    \/ TypeFilenameStep
    \/ Restart

SpecProject == Init /\ [][NextProject]_vars

\* C13: New Project and Open Project go on when nothing is unsaved (the main window
\* never marks anything unsaved): no exception ends the handler, and after New
\* Project the tabs are new and there is no layout path.
C13_ProceedsWhenNothingUnsaved ==
    last.op \in {"new_project", "open_project"} =>
        /\ ~last.raised
        /\ last.op = "new_project" =>
               /\ project.layout_path = ""
               /\ tabState = FreshTab(tabState.tab)

(***************************************************************************)
(* SpecSeats: LicenseTab._render_seats_table on seat lists and seat limits  *)
(***************************************************************************)
MaxSeats == 2
MaxSeatList == 3

\* A seat of the /seats answer: a JSON object that may carry a seat_number and
\* whose seat_id is absent ("none"), a numeral ("n1", "n2") or other text ("x").
Seat(has_number, seat_number, seat_id) ==
    [has_number |-> has_number, seat_number |-> seat_number, seat_id |-> seat_id]

\* int(seat_id): the value of a numeral; 0 stands for the ValueError of other text.
SeatIdInt(seat_id) ==
    CASE seat_id = "n1" -> 1
      [] seat_id = "n2" -> 2
      [] OTHER -> 0

\* LicenseTab._seat_number_from_payload: [found, n], found = FALSE for None.
SeatNumberFromPayload(seat) ==
    IF seat.has_number /\ seat.seat_number >= 1
    THEN [found |-> TRUE, n |-> seat.seat_number]
    ELSE IF seat.seat_id # "none" /\ SeatIdInt(seat.seat_id) >= 1
         THEN [found |-> TRUE, n |-> SeatIdInt(seat.seat_id)]
         ELSE [found |-> FALSE, n |-> 0]

\* A second pass that places nothing.
PlaceRestDropped(unplaced, u, slots) == slots

\* _render_seats_table, first loop, from the seat j on: a slot holds the index of
\* its seat in the list, 0 for None; acc = [slots, unplaced].
RECURSIVE PlaceNumbered(_, _, _)
PlaceNumbered(seats, j, acc) ==
    IF j > Len(seats) THEN acc
    ELSE LET sn == SeatNumberFromPayload(seats[j])
         IN  PlaceNumbered(seats, j + 1,
                 IF sn.found /\ 1 <= sn.n /\ sn.n <= Len(acc.slots) /\ acc.slots[sn.n] = 0
                 THEN [acc EXCEPT !.slots[sn.n] = j]
                 ELSE [acc EXCEPT !.unplaced = Append(@, j)])

\* _render_seats_table, second loop, from the unplaced seat u on: the first empty
\* slot takes the seat; the loop ends when no slot is empty.
RECURSIVE PlaceRest(_, _, _)
PlaceRest(unplaced, u, slots) ==
    LET free == {i \in 1..Len(slots) : slots[i] = 0}
    IN  IF u > Len(unplaced) \/ free = {} THEN slots
        ELSE PlaceRest(unplaced, u + 1,
                 [slots EXCEPT ![CHOOSE i \in free : \A k \in free : i <= k] = unplaced[u]])

\* The rows _render_seats_table makes of the slots: "Seat i" and the seat shown.
SeatRows(seats, slots) ==
    [i \in 1..Len(slots) |->
        [label |-> i,
         shown |-> slots[i],
         status |-> IF slots[i] = 0 THEN "Unused" ELSE "Used",
         sid |-> IF slots[i] = 0 THEN "none" ELSE seats[slots[i]].seat_id]]

SeatsPlaced(seats, acc) == SeatRows(seats, PlaceRest(acc.unplaced, 1, acc.slots))

\* LicenseTab._render_seats_table(seats) with _seats_limit = [known, n].
RenderSeatsTable(seats, seats_limit) ==
    SeatsPlaced(seats,
        PlaceNumbered(seats, 1,
            [slots |-> [i \in 1..(IF seats_limit.known THEN seats_limit.n ELSE Len(seats))
                            |-> 0],
             unplaced |-> <<>>]))

SeatsTried ==
    {Seat(FALSE, 0, "none"), Seat(TRUE, 1, "none"), Seat(TRUE, 2, "x"), Seat(TRUE, 0, "n2"),
     Seat(TRUE, MaxSeats + 1, "n1")}

SeatListsTried == UNION {[1..n -> SeatsTried] : n \in 0..MaxSeatList}

\* The seats table of the license tab: _seats_limit, the seats rendered last, the rows.
SeatsView(seats_limit) ==
    [tab |-> "license", seats_limit |-> seats_limit, seats |-> <<>>, table |-> <<>>]

InitSeats ==
    /\ Constructed
    /\ tabState \in {SeatsView([known |-> FALSE, n |-> 0])}
                    \cup {SeatsView([known |-> TRUE, n |-> n]) : n \in 0..MaxSeats}

RenderSeats(seats) ==
    /\ Idle
    /\ tabState' = [tabState EXCEPT !.seats = seats,
                                    !.table = RenderSeatsTable(seats, tabState.seats_limit)]
    /\ last' = Quiet("render_seats_table", "license")
    /\ UNCHANGED <<lic, tokenFile, requestsOk, curTab, mistar, multi, project>>

NextSeats == \E seats \in SeatListsTried : RenderSeats(seats)

SpecSeats == InitSeats /\ [][NextSeats]_vars

MetricOptions == {"Delay (average)", "Speed (average)", "Stops (total)"}

\* The metrics list of a new NetworkTab; moved is the last _move_metric call.
NewNetworkTab ==
    [tab |-> "network", metrics |-> <<"Delay (average)">>,
     moved |-> [row |-> 0, delta |-> 0, before |-> <<>>]]

\* An Add that does not look at the list.
AddMetricToListAlways(metrics, metric) == Append(metrics, metric)

\* NetworkTab._add_metric_to_list
AddMetricToList(metrics, metric) ==
    IF \E i \in 1..Len(metrics) : metrics[i] = metric THEN metrics
    ELSE Append(metrics, metric)

\* The list without the rows of the set selected (takeItem of every selected item).
RECURSIVE WithoutRows(_, _)
WithoutRows(metrics, selected) ==
    IF metrics = <<>> THEN <<>>
    ELSE LET rest == WithoutRows(SubSeq(metrics, 1, Len(metrics) - 1), selected)
         IN  IF Len(metrics) \in selected THEN rest ELSE Append(rest, metrics[Len(metrics)])

\* NetworkTab._move_metric(delta) with the current row (0-based, -1 for none).
MoveMetricIn(metrics, row, delta) ==
    IF row < 0 \/ row + delta < 0 \/ row + delta >= Len(metrics) THEN metrics
    ELSE [metrics EXCEPT ![row + 1] = metrics[row + delta + 1],
                         ![row + delta + 1] = metrics[row + 1]]

MetricsEdited(op, metrics, moved) ==
    /\ tabState' = [tabState EXCEPT !.metrics = metrics, !.moved = moved]
    /\ last' = Quiet(op, "network")
    /\ UNCHANGED <<lic, tokenFile, requestsOk, curTab, mistar, multi, project>>

\* NetworkTab._add_metric_clicked with the metric the combo shows.
AddMetric(metric) ==
    /\ Editing
    /\ MetricsEdited("add_metric", AddMetricToList(tabState.metrics, metric), tabState.moved)

\* NetworkTab._remove_metric_clicked with the rows selected.
RemoveMetric(selected) ==
    /\ Editing
    /\ MetricsEdited("remove_metric", WithoutRows(tabState.metrics, selected), tabState.moved)

MoveMetric(row, delta) ==
    /\ Editing
    /\ MetricsEdited("move_metric", MoveMetricIn(tabState.metrics, row, delta),
                     [row |-> row, delta |-> delta, before |-> tabState.metrics])

\* NetworkTab.import_state(s) as _apply_layout calls it, with s["collected"]["metrics"];
\* import_project_setup comes first.  The caller shows the exception in a box.
ImportMetrics(metrics) ==
    /\ Editing
    /\ IF "_project_file_from_parts" \notin ModuleFunctions
       THEN /\ tabState' = tabState
            /\ last' = [Quiet("import_state", "network") EXCEPT !.dialog = "critical"]
       ELSE /\ tabState' = [tabState EXCEPT !.metrics = metrics]
            /\ last' = Quiet("import_state", "network")
    /\ UNCHANGED <<lic, tokenFile, requestsOk, curTab, mistar, multi, project>>

\* NetworkTab._on_collect with a form that passes the other checks.
CollectNetwork(o) ==
    Collect("network",
            Form(FALSE, Numeral(0), Numeral(1), ExistingDir, ExistingDir, <<>>, "",
                 Len(tabState.metrics)),
            o, RaiseOutcome)

InitMetrics == Constructed /\ tabState = NewNetworkTab

NextMetrics ==
    \/ \E metric \in MetricOptions : AddMetric(metric)
    \/ \E selected \in SUBSET (1..Len(tabState.metrics)) : RemoveMetric(selected)
    \/ \E row \in -1..(Len(tabState.metrics) - 1), delta \in {-1, 1} : MoveMetric(row, delta)
    \/ \E metrics \in {<<>>, <<"Stops (total)", "Stops (total)">>} : ImportMetrics(metrics)
    \/ \E o \in {Granted({TIER_1}, "tok1"), RaiseOutcome} : CollectNetwork(o)
    \/ ActivateTier1MStep
    \/ SelectFollowedTabStep

SpecMetrics == InitMetrics /\ [][NextMetrics]_vars

MaxNodes == 2

\* NodesTab.DEFAULT_FROM_TO_PAIR
DEFAULT_FROM_TO_PAIR == <<1, 2>>

\* A node row before its From/To rows are built: node_data of _add_node_row.
NodeData(overpass) == [overpass |-> overpass, from_to_rows |-> <<>>]

\* A row update that does nothing.
UpdateFromToVisibilityDropped(node_row) == node_row

\* NodesTab._update_from_to_visibility and NodesTab._add_from_to_row, which call
\* each other; a From/To row is its two texts and whether it is visible and enabled.
RECURSIVE UpdateFromToVisibility(_)
AddFromToRow(node_row, from_val, to_val) ==
    UpdateFromToVisibility(
        [node_row EXCEPT !.from_to_rows =
            Append(@, [from |-> Digits(from_val), to |-> Digits(to_val), shown |-> TRUE])])

UpdateFromToVisibility(node_row) ==
    LET filled == IF Len(node_row.from_to_rows) = 0
                  THEN AddFromToRow(node_row, DEFAULT_FROM_TO_PAIR[1], DEFAULT_FROM_TO_PAIR[2])
                  ELSE node_row
        trimmed == [filled EXCEPT !.from_to_rows = SubSeq(@, 1, 1)]
    IN  [trimmed EXCEPT !.from_to_rows[1].shown = trimmed.overpass]

\* NodesTab._add_node_row, for the overpass box and the pairs it is given.
AddNodeRow(node_rows, overpass, from_to_pairs) ==
    LET pair == IF Len(from_to_pairs) > 0 THEN from_to_pairs[1] ELSE DEFAULT_FROM_TO_PAIR
    IN  Append(node_rows,
               UpdateFromToVisibility(AddFromToRow(NodeData(overpass), pair[1], pair[2])))

\* The node rows of a new NodesTab.
NewNodesTab == [tab |-> "nodes", node_rows |-> AddNodeRow(<<>>, FALSE, <<DEFAULT_FROM_TO_PAIR>>)]

\* The pair of a node row as _on_collect and export_state read it.
PairOf(node_row) ==
    IF node_row.from_to_rows # <<>>
    THEN <<AsInt(node_row.from_to_rows[1].from), AsInt(node_row.from_to_rows[1].to)>>
    ELSE DEFAULT_FROM_TO_PAIR

\* Nodes_List of NodesTab._on_collect: the overpass box and the list of pairs of a tuple.
NodesList(node_rows) ==
    [i \in 1..Len(node_rows) |->
        [overpass |-> node_rows[i].overpass, pairs |-> <<PairOf(node_rows[i])>>]]

\* The nodes of NodesTab.export_state.
ExportNodes(node_rows) ==
    [i \in 1..Len(node_rows) |->
        [overpass |-> node_rows[i].overpass, from_to_pairs |-> <<PairOf(node_rows[i])>>]]

\* The node loop of NodesTab.import_state on the nodes of a layout.
RECURSIVE ImportNodeRows(_)
ImportNodeRows(nodes) ==
    IF nodes = <<>> THEN <<>>
    ELSE LET nd == nodes[Len(nodes)]
             pair == IF nd.from_to_pairs # <<>> THEN nd.from_to_pairs[1]
                     ELSE DEFAULT_FROM_TO_PAIR
         IN  AddNodeRow(ImportNodeRows(SubSeq(nodes, 1, Len(nodes) - 1)), nd.overpass, <<pair>>)

\* Layouts with no pair, one pair and two pairs in a node.
SavedNodesTried ==
    {<<>>} \cup
    {<<[overpass |-> b, from_to_pairs |-> ps]>> :
        b \in BOOLEAN, ps \in {<<>>, <<<<3, 4>>>>, <<<<3, 4>>, <<5, 6>>>>}} \cup
    {<<[overpass |-> TRUE, from_to_pairs |-> <<>>],
       [overpass |-> FALSE, from_to_pairs |-> <<<<3, 4>>, <<5, 6>>>>]>>}

NodesEdited(op, node_rows) ==
    /\ tabState' = [tabState EXCEPT !.node_rows = node_rows]
    /\ last' = Quiet(op, "nodes")
    /\ UNCHANGED <<lic, tokenFile, requestsOk, curTab, mistar, multi, project>>

\* NodesTab._add_node_row_btn
AddNodeRowBtn ==
    /\ Editing
    /\ Len(tabState.node_rows) < MaxNodes
    /\ NodesEdited("add_node", AddNodeRow(tabState.node_rows, FALSE, <<DEFAULT_FROM_TO_PAIR>>))

\* NodesTab._remove_node_row
RemoveNodeRow ==
    /\ Editing
    /\ NodesEdited("remove_node",
                   IF tabState.node_rows = <<>> THEN <<>>
                   ELSE SubSeq(tabState.node_rows, 1, Len(tabState.node_rows) - 1))

\* The Overpass / Underpass box of row i changes state.
ToggleOverpass(i) ==
    /\ Editing
    /\ i \in 1..Len(tabState.node_rows)
    /\ NodesEdited("toggle_overpass",
                   [tabState.node_rows EXCEPT
                       ![i] = UpdateFromToVisibility([@ EXCEPT !.overpass = ~@])])

\* The user types into the From box of row i; the box is enabled when shown.
TypeFrom(i, text) ==
    /\ Editing
    /\ i \in 1..Len(tabState.node_rows)
    /\ tabState.node_rows[i].from_to_rows[1].shown
    /\ text # tabState.node_rows[i].from_to_rows[1].from
    /\ NodesEdited("type_from", [tabState.node_rows EXCEPT ![i].from_to_rows[1].from = text])

\* NodesTab.import_state(s) as _apply_layout calls it, with s["nodes"];
\* import_project_setup comes first.  The caller shows the exception in a box.
ImportNodes(nodes) ==
    /\ Editing
    /\ IF "_project_file_from_parts" \notin ModuleFunctions
       THEN /\ tabState' = tabState
            /\ last' = [Quiet("import_state", "nodes") EXCEPT !.dialog = "critical"]
       ELSE /\ tabState' = [tabState EXCEPT !.node_rows = ImportNodeRows(nodes)]
            /\ last' = Quiet("import_state", "nodes")
    /\ UNCHANGED <<lic, tokenFile, requestsOk, curTab, mistar, multi, project>>

\* NodesTab._on_collect with a form that passes the checks.
CollectNodes(o) ==
    Collect("nodes", FilledForm(FALSE, Numeral(0), Numeral(1)), o, RaiseOutcome)

InitNodes == Constructed /\ tabState = NewNodesTab

NextNodes ==
    \/ AddNodeRowBtn
    \/ RemoveNodeRow
    \/ \E i \in 1..MaxNodes : ToggleOverpass(i)
    \/ \E i \in 1..MaxNodes, text \in BoxTexts : TypeFrom(i, text)
    \/ \E nodes \in SavedNodesTried : ImportNodes(nodes)
    \/ \E o \in {Granted({TIER_1}, "tok1"), RaiseOutcome} : CollectNodes(o)
    \/ ActivateTier1MStep
    \/ SelectFollowedTabStep

SpecNodes == InitNodes /\ [][NextNodes]_vars

\* C19: every node row has exactly one From/To row, shown exactly when its Overpass
\* box is checked; every tuple given to Simulation_Nodes and every node written by
\* export_state has a list of exactly one pair; and the node loop of import_state
\* builds such rows from layouts with no pair, one pair or two pairs in a node.
C19_EveryNodeRowHasOnePair ==
    LET OnePairEach(rows) ==
            \A i \in 1..Len(rows) :
                /\ Len(rows[i].from_to_rows) = 1
                /\ rows[i].from_to_rows[1].shown = rows[i].overpass
        node_rows == tabState.node_rows
    IN  /\ OnePairEach(node_rows)
        /\ Len(ExportNodes(node_rows)) = Len(node_rows)
        /\ \A i \in 1..Len(node_rows) : Len(ExportNodes(node_rows)[i].from_to_pairs) = 1
        /\ last.stub = "Simulation_Nodes" =>
               /\ Len(NodesList(node_rows)) = Len(node_rows)
               /\ \A i \in 1..Len(node_rows) : Len(NodesList(node_rows)[i].pairs) = 1
        /\ \A nodes \in SavedNodesTried :
               /\ Len(ImportNodeRows(nodes)) = Len(nodes)
               /\ OnePairEach(ImportNodeRows(nodes))
               /\ \A i \in 1..Len(nodes) :
                      /\ ImportNodeRows(nodes)[i].overpass = nodes[i].overpass
                      /\ nodes[i].from_to_pairs # <<>> =>
                             PairOf(ImportNodeRows(nodes)[i]) = nodes[i].from_to_pairs[1]

\* Simulation_Nodes ran on two node rows, the first with Overpass checked and an
\* emptied From box, the second added with the button.
C19_Witness ==
    /\ last.stub = "Simulation_Nodes"
    /\ Len(tabState.node_rows) = 2
    /\ tabState.node_rows[1].overpass
    /\ tabState.node_rows[1].from_to_rows[1].shown
    /\ tabState.node_rows[1].from_to_rows[1].from = <<>>
    /\ ~tabState.node_rows[2].from_to_rows[1].shown
    /\ NodesList(tabState.node_rows)[1].pairs = <<(<<0, 2>>)>>

(***************************************************************************)
(* SpecScenarios: the Scenario Setup block of ProjectScenarioMixin          *)
(***************************************************************************)
\* The maximum of the Number of Scenarios spin box here (999 in the source).
MaxScenarios == 3

\* A visibility update that does nothing.
UpdateSimVisibilityDropped(ts) == ts

\* _update_sim_visibility of the five results tabs; sim_groupbox is FALSE for None.
UpdateSimVisibility(ts) ==
    IF ~ts.sim_groupbox THEN ts
    ELSE [ts EXCEPT !.sim_visible = \E i \in 1..Len(ts.scenario_rows) : ts.scenario_rows[i]]

\* ProjectScenarioMixin._add_scenario_row; a row is its Run Model box.
AddScenarioRowTo(ts, default_run) ==
    UpdateSimVisibility([ts EXCEPT !.scenario_rows = Append(@, default_run)])

\* ProjectScenarioMixin._remove_scenario_row
RemoveScenarioRowFrom(ts) ==
    IF ts.scenario_rows = <<>> THEN ts
    ELSE [ts EXCEPT !.scenario_rows = SubSeq(@, 1, Len(@) - 1)]

\* ProjectScenarioMixin._sync_scenario_rows_to_count
RECURSIVE SyncScenarioRowsToCount(_)
SyncScenarioRowsToCount(ts) ==
    IF Len(ts.scenario_rows) < ts.spin THEN SyncScenarioRowsToCount(AddScenarioRowTo(ts, FALSE))
    ELSE IF Len(ts.scenario_rows) > ts.spin
         THEN SyncScenarioRowsToCount(RemoveScenarioRowFrom(ts))
         ELSE UpdateSimVisibility(ts)

\* num_scenarios_spin.setValue(v): the value is brought into the range, and
\* valueChanged runs _sync_scenario_rows_to_count when the value changed.
SpinSetValue(ts, v) ==
    LET bounded == IF v < 1 THEN 1 ELSE IF v > MaxScenarios THEN MaxScenarios ELSE v
    IN  IF bounded = ts.spin THEN ts ELSE SyncScenarioRowsToCount([ts EXCEPT !.spin = bounded])

\* setChecked of the Run Model box of row i; stateChanged runs _update_sim_visibility.
RunSetChecked(ts, i, run) ==
    IF ts.scenario_rows[i] = run THEN ts
    ELSE UpdateSimVisibility([ts EXCEPT !.scenario_rows[i] = run])

\* The loop of import_scenarios over the rows of the dict, from row i on.
RECURSIVE FillScenarioRows(_, _, _)
FillScenarioRows(ts, rows, i) ==
    IF i > Len(rows) \/ i > Len(ts.scenario_rows) THEN ts
    ELSE FillScenarioRows(RunSetChecked(ts, i, rows[i]), rows, i + 1)

\* ProjectScenarioMixin.import_scenarios(d); count is -1 when the dict has no count.
ImportScenarios(ts, d) ==
    LET count == IF d.count # -1 THEN d.count
                 ELSE IF Len(d.rows) # 0 THEN Len(d.rows) ELSE 1
        synced == SpinSetValue(ts, IF count > 1 THEN count ELSE 1)
    IN  UpdateSimVisibility(FillScenarioRows(synced, d.rows, 1))

\* _build_scenario_setup, then _build_simulation_parameters, of a new results tab.
NewScenarioTab(t) ==
    LET setup == AddScenarioRowTo([tab |-> t, spin |-> 1, scenario_rows |-> <<>>,
                                   sim_groupbox |-> FALSE, sim_visible |-> FALSE,
                                   before |-> <<>>], FALSE)
    IN  UpdateSimVisibility([setup EXCEPT !.sim_groupbox = TRUE, !.sim_visible = TRUE])

\* Scenario dicts with and without a count, with fewer and more rows than the count.
ScenarioDictsTried ==
    {[count |-> c, rows |-> rows] :
        c \in {-1, 0, 1, MaxScenarios, MaxScenarios + 1},
        rows \in {<<>>, <<TRUE>>, <<FALSE, TRUE>>, <<FALSE, FALSE>>}}

ScenariosEdited(op, ts) ==
    /\ tabState' = [ts EXCEPT !.before = tabState.scenario_rows]
    /\ last' = Quiet(op, curTab)
    /\ UNCHANGED <<lic, tokenFile, requestsOk, curTab, mistar, multi, project>>

\* ProjectScenarioMixin._add_scenario_row_btn
AddScenarioRowBtn ==
    /\ Editing
    /\ ScenariosEdited("add_scenario", SpinSetValue(tabState, tabState.spin + 1))

\* ProjectScenarioMixin._remove_scenario_row_btn
RemoveScenarioRowBtn ==
    /\ Editing
    /\ ScenariosEdited("remove_scenario",
                       IF tabState.spin > 1 THEN SpinSetValue(tabState, tabState.spin - 1)
                       ELSE tabState)

\* The user sets the Number of Scenarios spin box to a value of its range.
SetNumScenarios(v) ==
    /\ Editing
    /\ v # tabState.spin
    /\ ScenariosEdited("set_num_scenarios", SpinSetValue(tabState, v))

\* The user clicks the Run Model box of row i.
ToggleRun(i) ==
    /\ Editing
    /\ i \in 1..Len(tabState.scenario_rows)
    /\ ScenariosEdited("toggle_run", RunSetChecked(tabState, i, ~tabState.scenario_rows[i]))

\* import_state(s) of the tab as _apply_layout calls it, with s["scenarios"];
\* import_project_setup comes first.  The caller shows the exception in a box.
ImportScenariosOfLayout(d) ==
    /\ Editing
    /\ IF "_project_file_from_parts" \notin ModuleFunctions
       THEN /\ tabState' = tabState
            /\ last' = [Quiet("import_state", curTab) EXCEPT !.dialog = "critical"]
       ELSE /\ tabState' = ImportScenarios(tabState, d)
            /\ last' = Quiet("import_state", curTab)
    /\ UNCHANGED <<lic, tokenFile, requestsOk, curTab, mistar, multi, project>>

InitScenarios == Constructed /\ tabState \in {NewScenarioTab(t) : t \in ResultsTabs}

NextScenarios ==
    \/ AddScenarioRowBtn
    \/ RemoveScenarioRowBtn
    \/ \E v \in 1..MaxScenarios : SetNumScenarios(v)
    \/ \E i \in 1..MaxScenarios : ToggleRun(i)
    \/ \E d \in ScenarioDictsTried : ImportScenariosOfLayout(d)
    \/ SelectFollowedTabStep

SpecScenarios == InitScenarios /\ [][NextScenarios]_vars

\* C20: in every results tab the number of scenario rows is the value of the spin
\* box and at least 1, the Simulation Parameters group is visible exactly when a
\* scenario row has Run Model checked, Remove Last Scenario on a single row changes
\* no row, and import_scenarios on any dict tried leaves the tab in that shape too.
C20_ScenarioRowsFollowTheSpinBox ==
    LET Shaped(ts) ==
            /\ Len(ts.scenario_rows) = ts.spin
            /\ ts.spin >= 1
            /\ ts.sim_visible <=> \E i \in 1..Len(ts.scenario_rows) : ts.scenario_rows[i]
    IN  /\ Shaped(tabState)
        /\ (last.op = "remove_scenario" /\ Len(tabState.before) = 1) =>
               tabState.scenario_rows = tabState.before
        /\ \A d \in ScenarioDictsTried : Shaped(ImportScenarios(tabState, d))

\* Remove Last Scenario took away a row with Run Model checked, the only one
\* checked, and the Simulation Parameters group went out of view.
C20_Witness ==
    /\ last.op = "remove_scenario"
    /\ Len(tabState.before) = 2
    /\ tabState.before[2]
    /\ tabState.scenario_rows = <<FALSE>>
    /\ tabState.spin = 1
    /\ ~tabState.sim_visible

====
